---- MODULE Spec2Model ----
(***************************************************************************)
(* Model of outline-cli: the transport client of package api, the         *)
(* process-wide client factory and the cobra commands of package cmd.     *)
(*                                                                         *)
(* Conventions.  A Go string whose bytes matter (document text, file      *)
(* content, base URL, API key) is a sequence of one-character strings.    *)
(* Identifiers, titles and error messages are TLA+ strings joined with    *)
(* \o.  A Go error is a sequence: <<>> is nil, <<m>> is an error whose    *)
(* Error() is m.  A *Document is <<>> (nil) or <<d>>.                     *)
(***************************************************************************)
EXTENDS Integers, Sequences, FiniteSets, TLC

VARIABLES
  clientFactory,  \* cmd.clientFactory: "default" or "stub"
  verbose,        \* cmd.verbose, bound to the persistent flag --verbose
  savedFactory,   \* stack of factories saved by running tests (originalFactory)
  fs,             \* working directory: file name -> file state
  pre,            \* history: fs when the last command (or client call) started
  cmd,            \* history: the last invocation [name, arg, verbose]
  err,            \* error returned by the last invocation
  trace,          \* history: the steps the last invocation performed, in order
  out,            \* what the last invocation printed, in order
  input,          \* the arguments and network answer of a direct client call
  pulled          \* history: <<T>> when the last invocation is a push that directly
                  \* follows a successful pull of the same id that fetched T

vars ==
  <<clientFactory, verbose, savedFactory, fs, pre, cmd, err, trace, out, input, pulled>>

----------------------------------------------------------------------------
(* Bounds *)

\* longest document text / file content, in bytes
MaxLen == 1
\* most characters a configured base URL has after its host
MaxURLLen == 2

----------------------------------------------------------------------------
(* Strings *)

Nil == <<>>
Err(msg) == <<msg>>
Msg(e) == e[1]

\* fmt.Errorf("<label>: %w", cause)
Wrap(label, cause) == Err(label \o ": " \o Msg(cause))

RECURSIVE SeqsUpTo(_, _)
SeqsUpTo(S, n) ==
  IF n = 0 THEN {<<>>}
  ELSE LET shorter == SeqsUpTo(S, n - 1)
       IN shorter \cup {Append(s, c) : s \in {t \in shorter : Len(t) = n - 1}, c \in S}

\* the Go string with the bytes of s, as one TLA+ string
RECURSIVE Str(_)
Str(s) == IF s = <<>> THEN "" ELSE Head(s) \o Str(Tail(s))

\* mutant: the bytes are written with a line feed appended, as fmt.Fprintln does
ToBytes_newline(s) == [i \in 1..(Len(s) + 1) |-> IF i <= Len(s) THEN s[i] ELSE "\n"]

\* mutant: the last byte is cut off, as content[:len(content)-1] does
FromBytes_dropLast(b) == [i \in 1..(IF Len(b) = 0 THEN 0 ELSE Len(b) - 1) |-> b[i]]

\* []byte(s) and string(b): Go copies the bytes one by one
ToBytes(s) == [i \in 1..Len(s) |-> s[i]]
FromBytes(b) == [i \in 1..Len(b) |-> b[i]]

\* strings.HasPrefix(Error(), p), for an error whose cause is one of causes
HasPrefix(e, p, causes) == e # Nil /\ \E c \in causes : Msg(e) = p \o c

----------------------------------------------------------------------------
(* Inputs *)

Bytes == {"a"}
Texts == SeqsUpTo(Bytes, MaxLen)

DocIDs == {"doc1", "doc2"}
Titles == {"T"}

\* a base URL is scheme and host followed by up to MaxURLLen characters
URLChars == {"/", "\t"}
BaseURLs == {<<"http://h">> \o t : t \in SeqsUpTo(URLChars, MaxURLLen)}

APIKeys == {<<"k">>, <<"0", "1", "2", "3", "4", "5", "6", "7", "8">>}

\* config.Config
Configs == [APIKey : APIKeys, OutlineURL : BaseURLs]

\* api.Document
Document(id, title, text, version) ==
  [ID |-> id, Title |-> title, Text |-> text, Version |-> version]
ZeroDocument == Document("", "", <<>>, 0)
Documents ==
  {Document(id, t, x, 1) : id \in DocIDs, t \in Titles, x \in Texts}

----------------------------------------------------------------------------
(* Base URL normalisation *)

\* mutant: strings.TrimSuffix(baseURL, "/"), which removes one separator only
normalizeURL_suffix(baseURL) ==
  IF baseURL # <<>> /\ baseURL[Len(baseURL)] = "/"
  THEN SubSeq(baseURL, 1, Len(baseURL) - 1)
  ELSE baseURL

\* strings.TrimRight(baseURL, "/") of package api
RECURSIVE normalizeURL(_)
normalizeURL(baseURL) ==
  IF baseURL # <<>> /\ baseURL[Len(baseURL)] = "/"
  THEN normalizeURL(SubSeq(baseURL, 1, Len(baseURL) - 1))
  ELSE baseURL

\* the copy of normalizeURL in package cmd, used by the test and update commands
RECURSIVE cmd_normalizeURL(_)
cmd_normalizeURL(baseURL) ==
  IF baseURL # <<>> /\ baseURL[Len(baseURL)] = "/"
  THEN cmd_normalizeURL(SubSeq(baseURL, 1, Len(baseURL) - 1))
  ELSE baseURL

\* fmt.Sprintf("%s<path>", base)
Endpoint(base, path) == base \o <<path>>

\* url.Parse, as called by http.NewRequest, rejects a URL holding a control byte
URLParseFails(url) == \E i \in 1..Len(url) : url[i] = "\t"
NewRequestErr(url) ==
  Err("parse \"" \o Str(url) \o "\": net/url: invalid control character in URL")

----------------------------------------------------------------------------
(* JSON values and encoding/json *)

JInvalid == [t |-> "invalid"]
JNull == [t |-> "null"]
JStr(s) == [t |-> "string", v |-> s]
JNum(n) == [t |-> "number", v |-> n]
JArr(items) == [t |-> "array", v |-> items]
JObj(fields) == [t |-> "object", v |-> fields]

JDoc(d) ==
  JObj([id |-> JStr(d.ID), title |-> JStr(d.Title),
        text |-> JStr(d.Text), version |-> JNum(d.Version)])

HasField(j, name) == j.t = "object" /\ name \in DOMAIN j.v

DocRaw(d) ==
  "{\"id\":\"" \o d.ID \o "\",\"title\":\"" \o d.Title \o "\",\"text\":\""
     \o Str(d.Text) \o "\",\"version\":" \o ToString(d.Version) \o "}"

RECURSIVE DocsRaw(_)
DocsRaw(ds) ==
  IF ds = <<>> THEN ""
  ELSE DocRaw(Head(ds)) \o (IF Len(ds) > 1 THEN "," ELSE "") \o DocsRaw(Tail(ds))

\* response bodies: the bytes on the wire and the JSON text they are
BodyNotJSON == [raw |-> "<html>Bad Gateway</html>", json |-> JInvalid]
BodyEmpty == [raw |-> "", json |-> JInvalid]
BodyNull == [raw |-> "null", json |-> JNull]
BodyEmptyObject == [raw |-> "{}", json |-> JObj(<<>>)]
BodyArray == [raw |-> "[]", json |-> JArr(<<>>)]
BodyEnvelope ==
  [raw |-> "{\"error\":\"not_found\",\"message\":\"Document not found\"}",
   json |-> JObj([error |-> JStr("not_found"), message |-> JStr("Document not found")])]
BodyOkTrue == [raw |-> "{\"ok\":true}", json |-> JObj([ok |-> [t |-> "bool", v |-> TRUE]])]
BodyDataNull == [raw |-> "{\"data\":null}", json |-> JObj([data |-> JNull])]
BodyDoc(d) == [raw |-> "{\"data\":" \o DocRaw(d) \o "}", json |-> JObj([data |-> JDoc(d)])]
BodyDocs(ds) ==
  [raw |-> "{\"data\":[" \o DocsRaw(ds) \o "]}",
   json |-> JObj([data |-> JArr([i \in 1..Len(ds) |-> JDoc(ds[i])])])]

SyntaxErr(body) ==
  IF body.raw = "" THEN Err("unexpected end of JSON input")
  ELSE Err("invalid character '<' looking for beginning of value")
TypeErr(j, goType) ==
  Err("json: cannot unmarshal " \o j.t \o " into Go value of type " \o goType)

\* decoding one string field of a struct: absent or null leaves the zero value
StringField(obj, name, zero) ==
  IF ~ HasField(obj, name) THEN [err |-> Nil, v |-> zero]
  ELSE LET j == obj.v[name]
       IN IF j.t = "string" THEN [err |-> Nil, v |-> j.v]
          ELSE IF j.t = "null" THEN [err |-> Nil, v |-> zero]
          ELSE [err |-> TypeErr(j, "string"), v |-> zero]

IntField(obj, name) ==
  IF ~ HasField(obj, name) THEN [err |-> Nil, v |-> 0]
  ELSE LET j == obj.v[name]
       IN IF j.t = "number" THEN [err |-> Nil, v |-> j.v]
          ELSE IF j.t = "null" THEN [err |-> Nil, v |-> 0]
          ELSE [err |-> TypeErr(j, "int"), v |-> 0]

FirstErr(es) ==
  IF \E i \in 1..Len(es) : es[i] # Nil
  THEN es[CHOOSE i \in 1..Len(es) : es[i] # Nil /\ \A k \in 1..(i - 1) : es[k] = Nil]
  ELSE Nil

\* json.Unmarshal of a JSON value into an api.Document
DecodeDocument(j) ==
  IF j.t = "null" THEN [err |-> Nil, v |-> ZeroDocument]
  ELSE IF j.t # "object" THEN [err |-> TypeErr(j, "api.Document"), v |-> ZeroDocument]
  ELSE LET id == StringField(j, "id", "")
           title == StringField(j, "title", "")
           text == StringField(j, "text", <<>>)
           version == IntField(j, "version")
       IN [err |-> FirstErr(<<id.err, title.err, text.err, version.err>>),
           v |-> Document(id.v, title.v, text.v, version.v)]

\* json.Unmarshal(body, &apiError), apiError struct{Error, Message string}
UnmarshalAPIError(body) ==
  LET j == body.json
  IN IF j.t = "invalid" THEN [err |-> SyntaxErr(body), Error |-> "", Message |-> ""]
     ELSE IF j.t = "null" THEN [err |-> Nil, Error |-> "", Message |-> ""]
     ELSE IF j.t # "object" THEN [err |-> TypeErr(j, "struct"), Error |-> "", Message |-> ""]
     ELSE LET e == StringField(j, "error", "")
              m == StringField(j, "message", "")
          IN [err |-> FirstErr(<<e.err, m.err>>), Error |-> e.v, Message |-> m.v]

\* json.Unmarshal(body, &response), response struct{Data Document}
UnmarshalDataDocument(body) ==
  LET j == body.json
  IN IF j.t = "invalid" THEN [err |-> SyntaxErr(body), Data |-> ZeroDocument]
     ELSE IF j.t = "null" THEN [err |-> Nil, Data |-> ZeroDocument]
     ELSE IF j.t # "object" THEN [err |-> TypeErr(j, "struct"), Data |-> ZeroDocument]
     ELSE IF ~ HasField(j, "data") THEN [err |-> Nil, Data |-> ZeroDocument]
     ELSE LET d == DecodeDocument(j.v["data"])
          IN [err |-> d.err, Data |-> d.v]

\* json.Unmarshal(body, &response), response struct{Data []Document}.
\* Data is Nil for the nil slice and <<ds>> for the slice with the elements ds.
UnmarshalDataDocuments(body) ==
  LET j == body.json
  IN IF j.t = "invalid" THEN [err |-> SyntaxErr(body), Data |-> Nil]
     ELSE IF j.t = "null" THEN [err |-> Nil, Data |-> Nil]
     ELSE IF j.t # "object" THEN [err |-> TypeErr(j, "struct"), Data |-> Nil]
     ELSE IF ~ HasField(j, "data") THEN [err |-> Nil, Data |-> Nil]
     ELSE LET a == j.v["data"]
          IN IF a.t = "null" THEN [err |-> Nil, Data |-> Nil]
             ELSE IF a.t # "array" THEN [err |-> TypeErr(a, "[]api.Document"), Data |-> Nil]
             ELSE LET ds == [i \in 1..Len(a.v) |-> DecodeDocument(a.v[i])]
                  IN [err |-> FirstErr([i \in 1..Len(ds) |-> ds[i].err]),
                      Data |-> <<[i \in 1..Len(ds) |-> ds[i].v]>>]

----------------------------------------------------------------------------
(* HTTP *)

StatusOK == 200

\* headers are a function from header name to value
NoHeaders == <<>>
SetHeader(h, name, value) == (name :> value) @@ h

Request(method, url, headers, body) ==
  [method |-> method, url |-> url, headers |-> headers, body |-> body]

\* what http.Client.Do and the later io.ReadAll can produce for one request
Statuses == {200, 404}
StatusLine(code) == IF code = 200 THEN "200 OK" ELSE ToString(code) \o " Not Found"

RoundTrip(neterr, status, body, readErr) ==
  [neterr |-> neterr, status |-> status, body |-> body, readErr |-> readErr]

SomeDocs == <<Document("doc1", "T", <<"a">>, 1), Document("doc2", "T", <<>>, 1)>>

Bodies ==
  {BodyNotJSON, BodyEmpty, BodyNull, BodyEmptyObject, BodyArray, BodyEnvelope,
   BodyOkTrue, BodyDataNull, BodyDocs(<<>>), BodyDocs(SomeDocs)}
    \cup {BodyDoc(d) : d \in Documents}

RoundTrips ==
  {RoundTrip(Err("dial tcp: connection refused"), 0, BodyEmpty, Nil)}
    \cup {RoundTrip(Nil, st, BodyEmpty, Err("unexpected EOF")) : st \in Statuses}
    \cup {RoundTrip(Nil, st, b, Nil) : st \in Statuses, b \in Bodies}

\* httpClient.Do(req): the network's answer
Do(req, rt) == rt
DoErr(req, rt) ==
  Err(req.method \o " \"" \o Str(req.url) \o "\": " \o Msg(Do(req, rt).neterr))

\* the result of one client operation: what it returns, and, as history, the
\* requests it sent, the steps it took and what it printed
OpResult(doc, e, steps, diag) == [doc |-> doc, err |-> e, steps |-> steps, diag |-> diag]

\* one step of an invocation, as recorded in the history
Ev(name, arg) == [ev |-> name, arg |-> arg]
StepDo(req) == Ev("Do", req)
StepReadAll == Ev("ReadAll", Nil)
StepStatus == Ev("StatusCode", Nil)
StepUnmarshal == Ev("Unmarshal", Nil)

When(cond, lines) == IF cond THEN lines ELSE <<>>
DiagResponse(r) ==
  << <<"Response status: ", StatusLine(r.status)>>, <<"Response body: ", r.body.raw>> >>

BearerHeaders(c) == SetHeader(NoHeaders, "Authorization", "Bearer " \o Str(c.APIKey))
JSONHeader(h, name) == SetHeader(h, name, "application/json")

----------------------------------------------------------------------------
(* The transport client of src/api/client.go.  c is the client's config,   *)
(* rt the outcome the network has in store for the request it sends.       *)

GetDocument(c, docID, vb, rt) ==
  LET url == Endpoint(normalizeURL(c.OutlineURL), "/api/documents.info")
      d1 == When(vb, << <<"Making request to: ", Str(url)>> >>)
      body == "{\"id\":\"" \o docID \o "\"}"
      req == Request("POST", url,
                     JSONHeader(JSONHeader(BearerHeaders(c), "Accept"), "Content-Type"),
                     <<body>>)
      d2 == d1 \o When(vb, << <<"Request headers:", req.headers>>,
                                   <<"Request body: ", body>> >>)
      r == Do(req, rt)
      d3 == d2 \o When(vb, DiagResponse(r))
      apiError == UnmarshalAPIError(r.body)
      response == UnmarshalDataDocument(r.body)
  IN IF URLParseFails(url)
       THEN OpResult(Nil, Wrap("creating request", NewRequestErr(url)), <<>>, d1)
     ELSE IF r.neterr # Nil
       THEN OpResult(Nil, Wrap("executing request", DoErr(req, rt)), <<StepDo(req)>>, d2)
     ELSE IF r.readErr # Nil
       THEN OpResult(Nil, Wrap("reading response body", r.readErr), <<StepDo(req)>>, d2)
     ELSE IF r.status # StatusOK
       THEN IF apiError.err = Nil
            THEN OpResult(Nil,
                          Err("API error: " \o apiError.Error \o " - " \o apiError.Message),
                          <<StepDo(req), StepReadAll, StepStatus, StepUnmarshal>>, d3)
            ELSE OpResult(Nil,
                          Err("unexpected status code: " \o ToString(r.status)
                                \o ", body: " \o r.body.raw),
                          <<StepDo(req), StepReadAll, StepStatus, StepUnmarshal>>, d3)
     ELSE IF response.err # Nil
       THEN OpResult(Nil,
                     Err("decoding response (status " \o ToString(r.status) \o "): "
                           \o Msg(response.err) \o "\nBody: " \o r.body.raw),
                     <<StepDo(req), StepReadAll, StepStatus, StepUnmarshal>>, d3)
     ELSE OpResult(<<response.Data>>, Nil,
                   <<StepDo(req), StepReadAll, StepStatus, StepUnmarshal>>, d3)

\* mutant: in verbose mode the request is dumped by reading its body, which
\* leaves nothing of the body to send
UpdateDocument_dumpDrainsBody(c, docID, content, vb, rt) ==
  LET url == Endpoint(normalizeURL(c.OutlineURL), "/api/documents.update")
      body == "{\"id\":\"" \o docID \o "\",\"text\":\"" \o Str(content) \o "\"}"
      req == Request("POST", url,
                     JSONHeader(JSONHeader(BearerHeaders(c), "Content-Type"), "Accept"),
                     IF vb THEN <<"">> ELSE <<body>>)
      d1 == When(vb, << <<"Making request to: ", Str(url)>>,
                             <<"Request payload: ", body>>,
                             <<"Request headers:", req.headers>> >>)
      r == Do(req, rt)
      d2 == d1 \o When(vb, DiagResponse(r))
  IN IF URLParseFails(url)
       THEN OpResult(Nil, Wrap("creating request", NewRequestErr(url)), <<>>, <<>>)
     ELSE IF r.neterr # Nil
       THEN OpResult(Nil, Wrap("executing request", DoErr(req, rt)), <<StepDo(req)>>, d1)
     ELSE IF r.readErr # Nil
       THEN OpResult(Nil, Wrap("reading response body", r.readErr), <<StepDo(req)>>, d1)
     ELSE IF r.status # StatusOK
       THEN OpResult(Nil,
                     Err("unexpected status code: " \o ToString(r.status)
                           \o ", body: " \o r.body.raw),
                     <<StepDo(req), StepReadAll, StepStatus>>, d2)
     ELSE OpResult(Nil, Nil, <<StepDo(req), StepReadAll, StepStatus>>, d2)

UpdateDocument(c, docID, content, vb, rt) ==
  LET url == Endpoint(normalizeURL(c.OutlineURL), "/api/documents.update")
      body == "{\"id\":\"" \o docID \o "\",\"text\":\"" \o Str(content) \o "\"}"
      req == Request("POST", url,
                     JSONHeader(JSONHeader(BearerHeaders(c), "Content-Type"), "Accept"),
                     <<body>>)
      d1 == When(vb, << <<"Making request to: ", Str(url)>>,
                             <<"Request payload: ", body>>,
                             <<"Request headers:", req.headers>> >>)
      r == Do(req, rt)
      d2 == d1 \o When(vb, DiagResponse(r))
  IN IF URLParseFails(url)
       THEN OpResult(Nil, Wrap("creating request", NewRequestErr(url)), <<>>, <<>>)
     ELSE IF r.neterr # Nil
       THEN OpResult(Nil, Wrap("executing request", DoErr(req, rt)), <<StepDo(req)>>, d1)
     ELSE IF r.readErr # Nil
       THEN OpResult(Nil, Wrap("reading response body", r.readErr), <<StepDo(req)>>, d1)
     ELSE IF r.status # StatusOK
       THEN OpResult(Nil,
                     Err("unexpected status code: " \o ToString(r.status)
                           \o ", body: " \o r.body.raw),
                     <<StepDo(req), StepReadAll, StepStatus>>, d2)
     ELSE OpResult(Nil, Nil, <<StepDo(req), StepReadAll, StepStatus>>, d2)

\* mutant: a request the network refused is sent a second time
ListDocuments_retries(c, vb, rt) ==
  LET url == Endpoint(normalizeURL(c.OutlineURL), "/api/documents.list")
      d1 == When(vb, << <<"Making request to: ", Str(url)>> >>)
      req == Request("POST", url, JSONHeader(BearerHeaders(c), "Accept"), Nil)
      d2 == d1 \o When(vb, << <<"Request headers:", req.headers>> >>)
      r == Do(req, rt)
      d3 == d2 \o When(vb, DiagResponse(r))
      response == UnmarshalDataDocuments(r.body)
  IN IF URLParseFails(url)
       THEN OpResult(Nil, Wrap("creating request", NewRequestErr(url)), <<>>, d1)
     ELSE IF r.neterr # Nil
       THEN OpResult(Nil, Wrap("executing request", DoErr(req, rt)),
                     <<StepDo(req), StepDo(req)>>, d2)
     ELSE IF r.readErr # Nil
       THEN OpResult(Nil, Wrap("reading response body", r.readErr), <<StepDo(req)>>, d2)
     ELSE IF r.status # StatusOK
       THEN OpResult(Nil,
                     Err("unexpected status code: " \o ToString(r.status)
                           \o ", body: " \o r.body.raw),
                     <<StepDo(req), StepReadAll, StepStatus>>, d3)
     ELSE IF response.err # Nil
       THEN OpResult(Nil,
                     Err("decoding response (status " \o ToString(r.status) \o "): "
                           \o Msg(response.err) \o "\nBody: " \o r.body.raw),
                     <<StepDo(req), StepReadAll, StepStatus, StepUnmarshal>>, d3)
     ELSE OpResult(response.Data, Nil,
                   <<StepDo(req), StepReadAll, StepStatus, StepUnmarshal>>, d3)

\* doc is Nil for the nil slice, <<ds>> for the slice ds
ListDocuments(c, vb, rt) ==
  LET url == Endpoint(normalizeURL(c.OutlineURL), "/api/documents.list")
      d1 == When(vb, << <<"Making request to: ", Str(url)>> >>)
      req == Request("POST", url, JSONHeader(BearerHeaders(c), "Accept"), Nil)
      d2 == d1 \o When(vb, << <<"Request headers:", req.headers>> >>)
      r == Do(req, rt)
      d3 == d2 \o When(vb, DiagResponse(r))
      response == UnmarshalDataDocuments(r.body)
  IN IF URLParseFails(url)
       THEN OpResult(Nil, Wrap("creating request", NewRequestErr(url)), <<>>, d1)
     ELSE IF r.neterr # Nil
       THEN OpResult(Nil, Wrap("executing request", DoErr(req, rt)), <<StepDo(req)>>, d2)
     ELSE IF r.readErr # Nil
       THEN OpResult(Nil, Wrap("reading response body", r.readErr), <<StepDo(req)>>, d2)
     ELSE IF r.status # StatusOK
       THEN OpResult(Nil,
                     Err("unexpected status code: " \o ToString(r.status)
                           \o ", body: " \o r.body.raw),
                     <<StepDo(req), StepReadAll, StepStatus>>, d3)
     ELSE IF response.err # Nil
       THEN OpResult(Nil,
                     Err("decoding response (status " \o ToString(r.status) \o "): "
                           \o Msg(response.err) \o "\nBody: " \o r.body.raw),
                     <<StepDo(req), StepReadAll, StepStatus, StepUnmarshal>>, d3)
     ELSE OpResult(response.Data, Nil,
                   <<StepDo(req), StepReadAll, StepStatus, StepUnmarshal>>, d3)

----------------------------------------------------------------------------
(* The transport client of src/unnamed/part_003: the same package api with *)
(* two operations, REST-style paths and no verbose flag.                   *)

GetDocument_v1(c, docID, rt) ==
  LET url == c.OutlineURL \o <<"/api/documents/", docID>>
      req == Request("GET", url, BearerHeaders(c), Nil)
      r == Do(req, rt)
      doc == DecodeDocument(r.body.json)
  IN IF URLParseFails(url)
       THEN OpResult(Nil, Wrap("creating request", NewRequestErr(url)), <<>>, <<>>)
     ELSE IF r.neterr # Nil
       THEN OpResult(Nil, Wrap("executing request", DoErr(req, rt)), <<StepDo(req)>>, <<>>)
     ELSE IF r.status # StatusOK
       THEN OpResult(Nil, Err("unexpected status code: " \o ToString(r.status)),
                     <<StepDo(req), StepStatus>>, <<>>)
     ELSE IF r.readErr # Nil
       THEN OpResult(Nil, Wrap("decoding response", r.readErr),
                     <<StepDo(req), StepStatus, StepUnmarshal>>, <<>>)
     ELSE IF r.body.json.t = "invalid"
       THEN OpResult(Nil, Wrap("decoding response", SyntaxErr(r.body)),
                     <<StepDo(req), StepStatus, StepUnmarshal>>, <<>>)
     ELSE IF doc.err # Nil
       THEN OpResult(Nil, Wrap("decoding response", doc.err),
                     <<StepDo(req), StepStatus, StepUnmarshal>>, <<>>)
     ELSE OpResult(<<doc.v>>, Nil, <<StepDo(req), StepStatus, StepUnmarshal>>, <<>>)

UpdateDocument_v1(c, docID, content, rt) ==
  LET url == c.OutlineURL \o <<"/api/documents/", docID>>
      body == "{\"text\":\"" \o Str(content) \o "\"}"
      req == Request("PUT", url, JSONHeader(BearerHeaders(c), "Content-Type"), <<body>>)
      r == Do(req, rt)
  IN IF URLParseFails(url)
       THEN OpResult(Nil, Wrap("creating request", NewRequestErr(url)), <<>>, <<>>)
     ELSE IF r.neterr # Nil
       THEN OpResult(Nil, Wrap("executing request", DoErr(req, rt)), <<StepDo(req)>>, <<>>)
     ELSE IF r.status # StatusOK
       THEN OpResult(Nil, Err("unexpected status code: " \o ToString(r.status)),
                     <<StepDo(req), StepStatus>>, <<>>)
     ELSE OpResult(Nil, Nil, <<StepDo(req), StepStatus>>, <<>>)

\* CreateDocument of the transport client: its code is not part of the sources;
\* modelled from the specification's operation table
CreateDocument(c, title, text, collectionId, vb, rt) ==
  LET url == Endpoint(normalizeURL(c.OutlineURL), "/api/documents.create")
      body == "{\"title\":\"" \o title \o "\",\"text\":\"" \o text
                 \o "\",\"collectionId\":\"" \o collectionId \o "\"}"
      req == Request("POST", url,
                     JSONHeader(JSONHeader(BearerHeaders(c), "Content-Type"), "Accept"),
                     <<body>>)
      d1 == When(vb, << <<"Making request to: ", Str(url)>>,
                             <<"Request payload: ", body>>,
                             <<"Request headers:", req.headers>> >>)
      r == Do(req, rt)
      d2 == d1 \o When(vb, DiagResponse(r))
      response == UnmarshalDataDocument(r.body)
  IN IF URLParseFails(url)
       THEN OpResult(Nil, Wrap("creating request", NewRequestErr(url)), <<>>, <<>>)
     ELSE IF r.neterr # Nil
       THEN OpResult(Nil, Wrap("executing request", DoErr(req, rt)), <<StepDo(req)>>, d1)
     ELSE IF r.readErr # Nil
       THEN OpResult(Nil, Wrap("reading response body", r.readErr), <<StepDo(req)>>, d1)
     ELSE IF r.status # StatusOK
       THEN OpResult(Nil,
                     Err("unexpected status code: " \o ToString(r.status)
                           \o ", body: " \o r.body.raw),
                     <<StepDo(req), StepReadAll, StepStatus>>, d2)
     ELSE IF response.err # Nil
       THEN OpResult(Nil,
                     Err("decoding response (status " \o ToString(r.status) \o "): "
                           \o Msg(response.err) \o "\nBody: " \o r.body.raw),
                     <<StepDo(req), StepReadAll, StepStatus, StepUnmarshal>>, d2)
     ELSE OpResult(<<response.Data>>, Nil,
                   <<StepDo(req), StepReadAll, StepStatus, StepUnmarshal>>, d2)

----------------------------------------------------------------------------
(* Client interface and factory *)

\* api.DefaultClientFactory: a transport client bound to cfg
DefaultClientFactory(cfg) == [kind |-> "real", config |-> cfg]
\* the factory a test installs: returns its scripted client whatever cfg is
StubClientFactory(cfg) == [kind |-> "stub", config |-> cfg]

\* calling the function held by the variable clientFactory
CallFactory(factory, cfg) ==
  IF factory = "default" THEN DefaultClientFactory(cfg) ELSE StubClientFactory(cfg)

\* the behaviour scripted into a stub client, per operation
StubErrs == {"API error"}
StubFailures == {OpResult(Nil, Err(e), <<>>, <<>>) : e \in StubErrs}
StubReturns(op) ==
  StubFailures \cup
    (CASE op = "GetDocument" ->
            {OpResult(<<Document("doc1", "T", x, 1)>>, Nil, <<>>, <<>>) : x \in Texts}
       [] op = "UpdateDocument" -> {OpResult(Nil, Nil, <<>>, <<>>)}
       [] op = "ListDocuments" ->
            {OpResult(<<ds>>, Nil, <<>>, <<>>) : ds \in {<<>>, SomeDocs}}
       [] op = "CreateDocument" ->
            {OpResult(<<Document("new-id", t, <<>>, 1)>>, Nil, <<>>, <<>>) : t \in Titles})

\* what the outside holds for one invocation: the network's answer to a
\* request, and the scripted return of the stub
World(rt, ret) == [rt |-> rt, ret |-> ret]
NoRoundTrip == RoundTrip(Err("no network"), 0, BodyEmpty, Nil)
\* the answers of the network tried under the commands
CmdRoundTrips ==
  {RoundTrip(Err("dial tcp: connection refused"), 0, BodyEmpty, Nil),
   RoundTrip(Nil, 200, BodyEmptyObject, Nil),
   RoundTrip(Nil, 200, BodyDocs(SomeDocs), Nil),
   RoundTrip(Nil, 404, BodyEnvelope, Nil)}
    \cup {RoundTrip(Nil, 200, BodyDoc(Document("doc1", "T", x, 1)), Nil) : x \in Texts}
Worlds(factory, op) ==
  IF factory = "default"
  THEN {World(rt, OpResult(Nil, Nil, <<>>, <<>>)) : rt \in CmdRoundTrips}
  ELSE {World(NoRoundTrip, ret) : ret \in StubReturns(op)}

\* dynamic dispatch on the Client interface
client_GetDocument(client, docID, vb, w) ==
  IF client.kind = "real" THEN GetDocument(client.config, docID, vb, w.rt) ELSE w.ret
client_UpdateDocument(client, docID, content, vb, w) ==
  IF client.kind = "real" THEN UpdateDocument(client.config, docID, content, vb, w.rt)
  ELSE w.ret
client_ListDocuments(client, vb, w) ==
  IF client.kind = "real" THEN ListDocuments(client.config, vb, w.rt) ELSE w.ret
client_CreateDocument(client, title, text, collectionId, vb, w) ==
  IF client.kind = "real"
  THEN CreateDocument(client.config, title, text, collectionId, vb, w.rt)
  ELSE w.ret

----------------------------------------------------------------------------
(* The working directory and os.ReadFile / os.WriteFile *)

\* fmt.Sprintf("%s.md", args[0])
FileName(docID) == docID \o ".md"
FileNames == {FileName(id) : id \in DocIDs}

Absent == [kind |-> "absent", content |-> <<>>]
Directory == [kind |-> "dir", content |-> <<>>]
File(content) == [kind |-> "file", content |-> content]
FileStates == {Absent, Directory} \cup {File(t) : t \in Texts}

ReadFile(f, name) ==
  IF f[name].kind = "file" THEN [data |-> ToBytes(f[name].content), err |-> Nil]
  ELSE IF f[name].kind = "dir"
       THEN [data |-> <<>>, err |-> Err("read " \o name \o ": is a directory")]
  ELSE [data |-> <<>>, err |-> Err("open " \o name \o ": no such file or directory")]

\* os.WriteFile opens with O_WRONLY|O_CREATE|O_TRUNC, writes, closes.  fault is
\* NoFault, or <<n>>: n bytes reach the file before the write fails.
NoFault == Nil

\* mutant: the file is opened with O_APPEND instead of O_TRUNC
WriteFile_append(f, name, data, fault) ==
  IF f[name].kind = "dir"
  THEN [fs |-> f, err |-> Err("open " \o name \o ": is a directory")]
  ELSE IF fault # NoFault /\ fault[1] < Len(data)
  THEN [fs |-> [f EXCEPT ![name] = File(f[name].content \o SubSeq(data, 1, fault[1]))],
        err |-> Err("write " \o name \o ": no space left on device")]
  ELSE [fs |-> [f EXCEPT ![name] = File(f[name].content \o data)], err |-> Nil]

WriteFile(f, name, data, fault) ==
  IF f[name].kind = "dir"
  THEN [fs |-> f, err |-> Err("open " \o name \o ": is a directory")]
  ELSE IF fault # NoFault /\ fault[1] < Len(data)
  THEN [fs |-> [f EXCEPT ![name] = File(SubSeq(data, 1, fault[1]))],
        err |-> Err("write " \o name \o ": no space left on device")]
  ELSE [fs |-> [f EXCEPT ![name] = File(data)], err |-> Nil]

----------------------------------------------------------------------------
(* src/config/config.go *)

ConfigPath == "/home/u/.outline-cli/config.json"

CmdConfigs ==
  {[APIKey |-> <<"0", "1", "2", "3", "4", "5", "6", "7", "8">>,
    OutlineURL |-> <<"http://h", "/">>]}

ConfigFile(c) ==
  [raw |-> "{\"api_key\":\"" \o Str(c.APIKey) \o "\",\"outline_url\":\""
             \o Str(c.OutlineURL) \o "\"}",
   json |-> JObj([api_key |-> JStr(c.APIKey), outline_url |-> JStr(c.OutlineURL)])]

\* the machine the command runs on: $HOME and the bytes of the config file
Env(home, file) == [home |-> home, file |-> file]
Envs ==
  {Env(TRUE, Nil), Env(TRUE, <<BodyNotJSON>>)}
    \cup {Env(TRUE, <<ConfigFile(c)>>) : c \in CmdConfigs}

loadConfig(env) ==
  IF ~ env.home THEN [cfg |-> Nil, err |-> Err("$HOME is not defined")]
  ELSE IF env.file = Nil
    THEN [cfg |-> Nil,
          err |-> Err("open " \o ConfigPath \o ": no such file or directory")]
  ELSE LET data == env.file[1]
           j == data.json
           key == StringField(j, "api_key", <<>>)
           url == StringField(j, "outline_url", <<>>)
       IN IF j.t = "invalid" THEN [cfg |-> Nil, err |-> SyntaxErr(data)]
          ELSE IF j.t # "object" /\ j.t # "null"
            THEN [cfg |-> Nil, err |-> TypeErr(j, "config.Config")]
          ELSE IF FirstErr(<<key.err, url.err>>) # Nil
            THEN [cfg |-> Nil, err |-> FirstErr(<<key.err, url.err>>)]
          ELSE [cfg |-> <<[APIKey |-> key.v, OutlineURL |-> url.v]>>, err |-> Nil]

\* var LoadConfig = loadConfig
LoadConfig(env) == loadConfig(env)

----------------------------------------------------------------------------
(* The commands of src/cmd/root.go.  Each operator is the RunE of one       *)
(* command: env is the machine's config, factory the value of               *)
(* clientFactory, w what the outside answers, f the working directory and   *)
(* fault the fate of a file write.  The result is the returned error, the   *)
(* working directory left behind, the steps taken and the lines printed.    *)

CmdResult(e, f, steps, printed) == [err |-> e, fs |-> f, trace |-> steps, out |-> printed]

EvLoadConfig(loaded) == Ev("LoadConfig", [err |-> loaded.err])
EvFactory(factory) == Ev("clientFactory", factory)
EvCall(op, params, res) ==
  Ev(op, [params |-> params, doc |-> res.doc, err |-> res.err])
EvReadFile(name, read) == Ev("ReadFile", [name |-> name, err |-> read.err])
EvWriteFile(name, data, written) ==
  Ev("WriteFile", [name |-> name, data |-> data, err |-> written.err])
EvPrint == Ev("Printf", Nil)

\* mutant: the output file is created before the document is fetched
pullCmd_createsFirst(env, factory, args, vb, w, f, fault) ==
  LET loaded == LoadConfig(env)
      client == CallFactory(factory, loaded.cfg[1])
      got == client_GetDocument(client, args[1], vb, w)
      filename == FileName(args[1])
      created == WriteFile(f, filename, <<>>, NoFault)
      data == ToBytes(got.doc[1].Text)
      written == WriteFile(f, filename, data, fault)
      t1 == <<EvLoadConfig(loaded)>>
      t2 == t1 \o <<EvFactory(factory)>> \o got.steps
               \o <<EvCall("GetDocument", <<args[1]>>, got)>>
      t3 == t2 \o <<EvWriteFile(filename, data, written)>>
  IN IF loaded.err # Nil
       THEN CmdResult(Wrap("loading config", loaded.err), f, t1, <<>>)
     ELSE IF got.err # Nil
       THEN CmdResult(Wrap("fetching document", got.err), created.fs, t2, got.diag)
     ELSE IF written.err # Nil
       THEN CmdResult(Wrap("writing file", written.err), written.fs, t3, got.diag)
     ELSE CmdResult(Nil, written.fs, t3 \o <<EvPrint>>,
                    got.diag \o << <<"Successfully pulled document to ", filename>> >>)

pullCmd(env, factory, args, vb, w, f, fault) ==
  LET loaded == LoadConfig(env)
      client == CallFactory(factory, loaded.cfg[1])
      got == client_GetDocument(client, args[1], vb, w)
      filename == FileName(args[1])
      data == ToBytes(got.doc[1].Text)
      written == WriteFile(f, filename, data, fault)
      t1 == <<EvLoadConfig(loaded)>>
      t2 == t1 \o <<EvFactory(factory)>> \o got.steps
               \o <<EvCall("GetDocument", <<args[1]>>, got)>>
      t3 == t2 \o <<EvWriteFile(filename, data, written)>>
  IN IF loaded.err # Nil
       THEN CmdResult(Wrap("loading config", loaded.err), f, t1, <<>>)
     ELSE IF got.err # Nil
       THEN CmdResult(Wrap("fetching document", got.err), f, t2, got.diag)
     ELSE IF written.err # Nil
       THEN CmdResult(Wrap("writing file", written.err), written.fs, t3, got.diag)
     ELSE CmdResult(Nil, written.fs, t3 \o <<EvPrint>>,
                    got.diag \o << <<"Successfully pulled document to ", filename>> >>)

\* mutant: the read error is tested only after the update has been sent
pushCmd_checksLate(env, factory, args, vb, w, f) ==
  LET loaded == LoadConfig(env)
      client == CallFactory(factory, loaded.cfg[1])
      filename == FileName(args[1])
      read == ReadFile(f, filename)
      content == FromBytes(read.data)
      sent == client_UpdateDocument(client, args[1], content, vb, w)
      t1 == <<EvLoadConfig(loaded)>>
      t2 == t1 \o <<EvFactory(factory), EvReadFile(filename, read)>>
      t3 == t2 \o sent.steps \o <<EvCall("UpdateDocument", <<args[1], content>>, sent)>>
  IN IF loaded.err # Nil
       THEN CmdResult(Wrap("loading config", loaded.err), f, t1, <<>>)
     ELSE IF read.err # Nil
       THEN CmdResult(Wrap("reading file", read.err), f, t3, sent.diag)
     ELSE IF sent.err # Nil
       THEN CmdResult(Wrap("updating document", sent.err), f, t3, sent.diag)
     ELSE CmdResult(Nil, f, t3 \o <<EvPrint>>,
                    sent.diag \o << <<"Successfully pushed changes to document ", args[1]>> >>)

pushCmd(env, factory, args, vb, w, f) ==
  LET loaded == LoadConfig(env)
      client == CallFactory(factory, loaded.cfg[1])
      filename == FileName(args[1])
      read == ReadFile(f, filename)
      content == FromBytes(read.data)
      sent == client_UpdateDocument(client, args[1], content, vb, w)
      t1 == <<EvLoadConfig(loaded)>>
      t2 == t1 \o <<EvFactory(factory), EvReadFile(filename, read)>>
      t3 == t2 \o sent.steps \o <<EvCall("UpdateDocument", <<args[1], content>>, sent)>>
  IN IF loaded.err # Nil
       THEN CmdResult(Wrap("loading config", loaded.err), f, t1, <<>>)
     ELSE IF read.err # Nil
       THEN CmdResult(Wrap("reading file", read.err), f, t2, <<>>)
     ELSE IF sent.err # Nil
       THEN CmdResult(Wrap("updating document", sent.err), f, t3, sent.diag)
     ELSE CmdResult(Nil, f, t3 \o <<EvPrint>>,
                    sent.diag \o << <<"Successfully pushed changes to document ", args[1]>> >>)

\* TODO in the source: the command does nothing
diffCmd(args, f) == CmdResult(Nil, f, <<>>, <<>>)

maskAPIKey(key) ==
  IF Len(key) <= 8 THEN "****"
  ELSE Str(SubSeq(key, 1, 4)) \o "..." \o Str(SubSeq(key, Len(key) - 3, Len(key)))

debugCmd(env, f) ==
  LET loaded == LoadConfig(env)
      cfg == loaded.cfg[1]
  IN IF loaded.err # Nil
       THEN CmdResult(Wrap("loading config", loaded.err), f, <<EvLoadConfig(loaded)>>, <<>>)
     ELSE CmdResult(Nil, f, <<EvLoadConfig(loaded), EvPrint, EvPrint, EvPrint>>,
                    << <<"Configuration:">>,
                       <<"  Outline URL: ", Str(cfg.OutlineURL)>>,
                       <<"  API Key: ", maskAPIKey(cfg.APIKey)>> >>)

\* mutant: the client is built and asked before the config error is tested
listCmd_checksLate(env, factory, vb, w, f) ==
  LET loaded == LoadConfig(env)
      cfg == IF loaded.cfg = Nil THEN [APIKey |-> <<>>, OutlineURL |-> <<>>]
             ELSE loaded.cfg[1]
      client == CallFactory(factory, cfg)
      listed == client_ListDocuments(client, vb, w)
      docs == IF listed.doc = Nil THEN <<>> ELSE listed.doc[1]
      t1 == <<EvLoadConfig(loaded)>>
      t2 == t1 \o <<EvFactory(factory)>> \o listed.steps
               \o <<EvCall("ListDocuments", <<>>, listed)>>
  IN IF loaded.err # Nil
       THEN CmdResult(Wrap("loading config", loaded.err), f, t2, listed.diag)
     ELSE IF listed.err # Nil
       THEN CmdResult(Wrap("listing documents", listed.err), f, t2, listed.diag)
     ELSE CmdResult(Nil, f, t2 \o [i \in 1..Len(docs) |-> EvPrint],
                    listed.diag \o [i \in 1..Len(docs) |-> <<docs[i].ID, ": ", docs[i].Title>>])

listCmd(env, factory, vb, w, f) ==
  LET loaded == LoadConfig(env)
      client == CallFactory(factory, loaded.cfg[1])
      listed == client_ListDocuments(client, vb, w)
      docs == IF listed.doc = Nil THEN <<>> ELSE listed.doc[1]
      t1 == <<EvLoadConfig(loaded)>>
      t2 == t1 \o <<EvFactory(factory)>> \o listed.steps
               \o <<EvCall("ListDocuments", <<>>, listed)>>
  IN IF loaded.err # Nil
       THEN CmdResult(Wrap("loading config", loaded.err), f, t1, <<>>)
     ELSE IF listed.err # Nil
       THEN CmdResult(Wrap("listing documents", listed.err), f, t2, listed.diag)
     ELSE CmdResult(Nil, f, t2 \o [i \in 1..Len(docs) |-> EvPrint],
                    listed.diag \o [i \in 1..Len(docs) |-> <<docs[i].ID, ": ", docs[i].Title>>])

\* the collection id written into createCmd
CollectionID == "8f2de8e6-a423-4960-8802-18c0da301989"

\* mutant: a failed creation is tried a second time
createCmd_retries(env, factory, args, vb, w, f) ==
  LET loaded == LoadConfig(env)
      client == CallFactory(factory, loaded.cfg[1])
      text == "# " \o args[1] \o "\n\nNew document created via CLI."
      made == client_CreateDocument(client, args[1], text, CollectionID, vb, w)
      call == made.steps \o <<EvCall("CreateDocument", <<args[1], text, CollectionID>>, made)>>
      t1 == <<EvLoadConfig(loaded)>>
      t2 == t1 \o <<EvFactory(factory)>> \o call
  IN IF loaded.err # Nil
       THEN CmdResult(Wrap("loading config", loaded.err), f, t1, <<>>)
     ELSE IF made.err # Nil
       THEN CmdResult(Wrap("creating document", made.err), f, t2 \o call,
                      made.diag \o made.diag)
     ELSE CmdResult(Nil, f, t2 \o <<EvPrint>>,
                    made.diag \o << <<"Successfully created document with ID: ",
                                      made.doc[1].ID>> >>)

createCmd(env, factory, args, vb, w, f) ==
  LET loaded == LoadConfig(env)
      client == CallFactory(factory, loaded.cfg[1])
      text == "# " \o args[1] \o "\n\nNew document created via CLI."
      made == client_CreateDocument(client, args[1], text, CollectionID, vb, w)
      t1 == <<EvLoadConfig(loaded)>>
      t2 == t1 \o <<EvFactory(factory)>> \o made.steps
               \o <<EvCall("CreateDocument", <<args[1], text, CollectionID>>, made)>>
  IN IF loaded.err # Nil
       THEN CmdResult(Wrap("loading config", loaded.err), f, t1, <<>>)
     ELSE IF made.err # Nil
       THEN CmdResult(Wrap("creating document", made.err), f, t2, made.diag)
     ELSE CmdResult(Nil, f, t2 \o <<EvPrint>>,
                    made.diag \o << <<"Successfully created document with ID: ",
                                      made.doc[1].ID>> >>)

\* testCmd and updateCmd build their request themselves and send it through
\* their own http.Client; rt is the network's answer
testCmd(env, vb, rt, f) ==
  LET loaded == LoadConfig(env)
      cfg == loaded.cfg[1]
      url == Endpoint(cmd_normalizeURL(cfg.OutlineURL), "/api/auth.info")
      req == Request("POST", url,
                     JSONHeader(JSONHeader(BearerHeaders(cfg), "Accept"), "Content-Type"),
                     <<"{}">>)
      d1 == When(vb, << <<"Making request to: ", Str(url)>>,
                             <<"Request headers:", req.headers>> >>)
      r == Do(req, rt)
      d2 == d1 \o When(vb, DiagResponse(r))
      apiError == UnmarshalAPIError(r.body)
      t1 == <<EvLoadConfig(loaded)>>
      t2 == t1 \o <<StepDo(req)>>
      t3 == t2 \o <<StepReadAll, StepStatus>>
  IN IF loaded.err # Nil
       THEN CmdResult(Wrap("loading config", loaded.err), f, t1, <<>>)
     ELSE IF URLParseFails(url)
       THEN CmdResult(Wrap("creating request", NewRequestErr(url)), f, t1, <<>>)
     ELSE IF r.neterr # Nil
       THEN CmdResult(Wrap("executing request", DoErr(req, rt)), f, t2, d1)
     ELSE IF r.readErr # Nil
       THEN CmdResult(Wrap("reading response", r.readErr), f, t2, d1)
     ELSE IF r.status # StatusOK
       THEN IF apiError.err = Nil
            THEN CmdResult(Err("API error: " \o apiError.Error \o " - " \o apiError.Message),
                           f, t3 \o <<StepUnmarshal>>, d2)
            ELSE CmdResult(Err("API error: " \o r.body.raw), f, t3 \o <<StepUnmarshal>>, d2)
     ELSE CmdResult(Nil, f, t3 \o <<EvPrint>>, d2 \o << <<"API connection successful!">> >>)

updateCmd(env, args, rt, f) ==
  LET loaded == LoadConfig(env)
      cfg == loaded.cfg[1]
      url == Endpoint(cmd_normalizeURL(cfg.OutlineURL), "/api/documents.update")
      req == Request("POST", url,
                     JSONHeader(JSONHeader(BearerHeaders(cfg), "Content-Type"), "Accept"),
                     <<"{\"id\":\"" \o args[1] \o "\",\"publish\":true}">>)
      r == Do(req, rt)
      t1 == <<EvLoadConfig(loaded)>>
      t2 == t1 \o <<StepDo(req)>>
  IN IF loaded.err # Nil
       THEN CmdResult(Wrap("loading config", loaded.err), f, t1, <<>>)
     ELSE IF URLParseFails(url)
       THEN CmdResult(Wrap("creating request", NewRequestErr(url)), f, t1, <<>>)
     ELSE IF r.neterr # Nil
       THEN CmdResult(Wrap("executing request", DoErr(req, rt)), f, t2, <<>>)
     ELSE IF r.status # StatusOK
       THEN CmdResult(Err("unexpected status code: " \o ToString(r.status)), f,
                      t2 \o <<StepStatus>>, <<>>)
     ELSE CmdResult(Nil, f, t2 \o <<StepStatus, EvPrint>>,
                    << <<"Successfully updated document ", args[1]>> >>)

----------------------------------------------------------------------------
(* The program as a state machine: one step is one command invocation,    *)
(* one edit of the working directory by the user, or one step of a test   *)
(* that replaces the factory.                                             *)

FaultChoices == {NoFault} \cup {<<n>> : n \in 0..(MaxLen - 1)}

Invocation(name, args, vb) == [name |-> name, args |-> args, verbose |-> vb]

Init ==
  /\ clientFactory = "default"
  /\ verbose = FALSE
  /\ savedFactory = Nil
  /\ fs = [n \in FileNames |-> Absent]
  /\ pre = [n \in FileNames |-> Absent]
  /\ cmd = Invocation("none", <<>>, FALSE)
  /\ err = Nil
  /\ trace = <<>>
  /\ out = <<>>
  /\ input = Nil
  /\ pulled = Nil

\* the Text fetched by the invocation before this one, when that was a
\* successful pull with the arguments args
JustPulled(args) ==
  IF cmd.name = "pull" /\ cmd.args = args /\ err = Nil
  THEN <<trace[CHOOSE i \in 1..Len(trace) : trace[i].ev = "GetDocument"].arg.doc[1].Text>>
  ELSE Nil

\* the command returned r
Finish(inv, r) ==
  /\ cmd' = inv
  /\ pulled' = IF inv.name = "push" THEN JustPulled(inv.args) ELSE Nil
  /\ err' = r.err
  /\ fs' = r.fs
  /\ pre' = fs
  /\ trace' = r.trace
  /\ out' = r.out
  /\ UNCHANGED <<clientFactory, verbose, savedFactory, input>>

Pull ==
  \E arg \in DocIDs, env \in Envs, fault \in FaultChoices :
    \E w \in Worlds(clientFactory, "GetDocument") :
      Finish(Invocation("pull", <<arg>>, verbose),
             pullCmd(env, clientFactory, <<arg>>, verbose, w, fs, fault))

Push ==
  \E arg \in DocIDs, env \in Envs :
    \E w \in Worlds(clientFactory, "UpdateDocument") :
      Finish(Invocation("push", <<arg>>, verbose),
             pushCmd(env, clientFactory, <<arg>>, verbose, w, fs))

Diff ==
  \E arg \in DocIDs : Finish(Invocation("diff", <<arg>>, verbose), diffCmd(<<arg>>, fs))

Debug ==
  \E env \in Envs : Finish(Invocation("debug", <<>>, verbose), debugCmd(env, fs))

List ==
  \E env \in Envs :
    \E w \in Worlds(clientFactory, "ListDocuments") :
      Finish(Invocation("list", <<>>, verbose),
             listCmd(env, clientFactory, verbose, w, fs))

Create ==
  \E arg \in Titles, env \in Envs :
    \E w \in Worlds(clientFactory, "CreateDocument") :
      Finish(Invocation("create", <<arg>>, verbose),
             createCmd(env, clientFactory, <<arg>>, verbose, w, fs))

Test ==
  \E env \in Envs, rt \in CmdRoundTrips :
    Finish(Invocation("test", <<>>, verbose), testCmd(env, verbose, rt, fs))

Update ==
  \E arg \in DocIDs, env \in Envs, rt \in CmdRoundTrips :
    Finish(Invocation("update", <<arg>>, verbose), updateCmd(env, <<arg>>, rt, fs))

\* cobra parses the persistent flag -v / --verbose into the variable verbose
\* before it runs the command; the value stays until a later parse sets it
ParseFlags ==
  /\ verbose' = ~ verbose
  /\ UNCHANGED <<clientFactory, savedFactory, fs, pre, cmd, err, trace, out, input, pulled>>

\* the user (or a test's set-up) creates, edits or removes a file
EditFile ==
  \E n \in FileNames, st \in FileStates :
    /\ st # fs[n]
    /\ fs' = [fs EXCEPT ![n] = st]
    /\ pre' = fs
    /\ cmd' = Invocation("edit", <<n>>, verbose)
    /\ err' = Nil
    /\ trace' = <<>>
    /\ out' = <<>>
    /\ pulled' = Nil
    /\ UNCHANGED <<clientFactory, verbose, savedFactory, input>>

\* a subtest saves the active factory and installs its stub
TestOverrideFactory ==
  /\ savedFactory = Nil
  /\ savedFactory' = <<clientFactory>>
  /\ clientFactory' = "stub"
  /\ UNCHANGED <<verbose, fs, pre, cmd, err, trace, out, input, pulled>>

\* the subtest's deferred function restores the saved factory
TestRestoreFactory ==
  /\ savedFactory # Nil
  /\ clientFactory' = savedFactory[1]
  /\ savedFactory' = Nil
  /\ UNCHANGED <<verbose, fs, pre, cmd, err, trace, out, input, pulled>>

\* a test of src/cmd/root_test.go installs its stub; nothing is saved and
\* nothing is put back when the test ends
TestSetFactory ==
  /\ clientFactory' = "stub"
  /\ UNCHANGED <<verbose, savedFactory, fs, pre, cmd, err, trace, out, input, pulled>>

Next ==
  \/ Pull
  \/ Push
  \/ Diff
  \/ Debug
  \/ List
  \/ Create
  \/ Test
  \/ Update
  \/ EditFile
  \/ ParseFlags
  \/ TestOverrideFactory
  \/ TestRestoreFactory

Spec == Init /\ [][Next]_vars

\* the test binary of package cmd: the steps of its tests (set-up of files,
\* replacing the factory) and the commands the tests execute
TestNext ==
  \/ Pull
  \/ Push
  \/ Create
  \/ EditFile
  \/ TestOverrideFactory
  \/ TestRestoreFactory
  \/ TestSetFactory

TestSpec == Init /\ [][TestNext]_vars

----------------------------------------------------------------------------
(* The code that sends requests, applied to one input: the initial state   *)
(* draws a config, the arguments and the network's answer; one step        *)
(* applies one operation of a transport client, or runs one of the two     *)
(* commands that send their request themselves.                            *)

ClientInput(c, docID, content, vb, rt) ==
  [cfg |-> c, docID |-> docID, content |-> content, verbose |-> vb, rt |-> rt]
ClientInputs ==
  {ClientInput(c, id, x, vb, rt) :
     c \in Configs, id \in {"doc1"}, x \in {<<"a">>}, vb \in BOOLEAN, rt \in RoundTrips}

ClientInit ==
  /\ clientFactory = "default"
  /\ verbose = FALSE
  /\ savedFactory = Nil
  /\ fs = [n \in FileNames |-> Absent]
  /\ pre = [n \in FileNames |-> Absent]
  /\ cmd = Invocation("none", <<>>, FALSE)
  /\ err = Nil
  /\ trace = <<>>
  /\ out = <<>>
  /\ input \in {<<i>> : i \in ClientInputs}
  /\ pulled = Nil

\* the operation returned res
Return(op, params, res) ==
  /\ cmd.name = "none"
  /\ cmd' = Invocation(op, params, input[1].verbose)
  /\ err' = res.err
  /\ trace' = res.steps \o <<EvCall(op, params, res)>>
  /\ out' = res.diag
  /\ UNCHANGED <<clientFactory, verbose, savedFactory, fs, pre, input, pulled>>

CallGetDocument ==
  LET i == input[1]
  IN Return("GetDocument", <<i.docID>>, GetDocument(i.cfg, i.docID, i.verbose, i.rt))

CallUpdateDocument ==
  LET i == input[1]
  IN Return("UpdateDocument", <<i.docID, i.content>>,
            UpdateDocument(i.cfg, i.docID, i.content, i.verbose, i.rt))

CallListDocuments ==
  LET i == input[1]
  IN Return("ListDocuments", <<>>, ListDocuments(i.cfg, i.verbose, i.rt))

CallGetDocument_v1 ==
  LET i == input[1]
  IN /\ ~ i.verbose
     /\ Return("GetDocument_v1", <<i.docID>>, GetDocument_v1(i.cfg, i.docID, i.rt))

CallUpdateDocument_v1 ==
  LET i == input[1]
  IN /\ ~ i.verbose
     /\ Return("UpdateDocument_v1", <<i.docID, i.content>>,
               UpdateDocument_v1(i.cfg, i.docID, i.content, i.rt))

\* the two commands that build their request URL themselves, run on a machine
\* whose config file holds the drawn config
RunTest ==
  LET i == input[1]
  IN /\ cmd.name = "none"
     /\ i.verbose = verbose
     /\ Finish(Invocation("test", <<>>, verbose),
               testCmd(Env(TRUE, <<ConfigFile(i.cfg)>>), verbose, i.rt, fs))

RunUpdate ==
  LET i == input[1]
  IN /\ cmd.name = "none"
     /\ i.verbose = verbose
     /\ Finish(Invocation("update", <<i.docID>>, verbose),
               updateCmd(Env(TRUE, <<ConfigFile(i.cfg)>>), <<i.docID>>, i.rt, fs))

ClientNext ==
  \/ CallGetDocument
  \/ CallUpdateDocument
  \/ CallListDocuments
  \/ CallGetDocument_v1
  \/ CallUpdateDocument_v1
  \/ RunTest
  \/ RunUpdate

ClientSpec == ClientInit /\ [][ClientNext]_vars

----------------------------------------------------------------------------
(* Reading the history of the last invocation *)

Ran(name) == cmd.name = name
Failed == err # Nil
Steps(name) == {i \in 1..Len(trace) : trace[i].ev = name}
Did(name) == Steps(name) # {}
\* the single call of the client operation op: its parameters and what it returned
TheCall(op) == trace[CHOOSE i \in Steps(op) : TRUE].arg
Returned(op) == Did(op) /\ TheCall(op).err = Nil

----------------------------------------------------------------------------
(* C1 *)

\* every cause os.WriteFile reports for the file name
WriteCauses(name) ==
  {"open " \o name \o ": is a directory", "write " \o name \o ": no space left on device"}

\* C1, as stated: whenever the client's GetDocument returned a Document without
\* error, pull returned nil and <id>.md holds exactly the Document's Text.
C1_AsStated ==
  (Ran("pull") /\ Returned("GetDocument"))
    => /\ err = Nil
       /\ fs[FileName(cmd.args[1])] = File(TheCall("GetDocument").doc[1].Text)

\* C1, amended: whenever the client's GetDocument returned a Document without
\* error, pull wrote the Text to <id>.md, id being the argument verbatim: either
\* the write succeeded, pull returned nil and the file holds exactly the Text,
\* whatever it held before, or the write failed and pull returned
\* "writing file: <cause>".
C1_PullWritesText ==
  (Ran("pull") /\ Returned("GetDocument"))
    => LET name == FileName(cmd.args[1])
           text == TheCall("GetDocument").doc[1].Text
       IN /\ Did("WriteFile")
          /\ \A i \in Steps("WriteFile") :
                trace[i].arg.name = name /\ trace[i].arg.data = text
          /\ \/ err = Nil /\ fs[name] = File(text)
             \/ HasPrefix(err, "writing file: ", WriteCauses(name))

\* a successful pull that replaced a file holding other content
C1_Witness ==
  /\ Ran("pull") /\ Returned("GetDocument") /\ err = Nil
  /\ pre[FileName(cmd.args[1])].kind = "file"
  /\ pre[FileName(cmd.args[1])].content # TheCall("GetDocument").doc[1].Text
  /\ fs[FileName(cmd.args[1])] = File(TheCall("GetDocument").doc[1].Text)
  /\ TheCall("GetDocument").doc[1].Text # <<>>

----------------------------------------------------------------------------
(* C2 *)

\* C2: whenever the client's GetDocument returned an error E, pull returned
\* exactly "fetching document: E" and every file of the working directory is as
\* it was before the command: none created, none modified.
C2_FetchErrorLeavesFiles ==
  (Ran("pull") /\ Did("GetDocument") /\ TheCall("GetDocument").err # Nil)
    => /\ err = Err("fetching document: " \o Msg(TheCall("GetDocument").err))
       /\ fs = pre

\* a pull that failed to fetch while <id>.md existed with content
C2_Witness ==
  /\ Ran("pull") /\ Did("GetDocument") /\ TheCall("GetDocument").err # Nil
  /\ pre[FileName(cmd.args[1])].kind = "file"
  /\ pre[FileName(cmd.args[1])].content # <<>>

----------------------------------------------------------------------------
(* C3 *)

ReadCauses(name) ==
  {"open " \o name \o ": no such file or directory", "read " \o name \o ": is a directory"}


\* C3: whenever push could not read <id>.md, it returned an error that starts
\* with "reading file: " and UpdateDocument was not called (nor any request sent).
C3_UnreadableFileNoUpdate ==
  (Ran("push") /\ Did("ReadFile") /\ pre[FileName(cmd.args[1])].kind # "file")
    => /\ HasPrefix(err, "reading file: ", ReadCauses(FileName(cmd.args[1])))
       /\ ~ Did("UpdateDocument")
       /\ ~ Did("Do")

\* a push of a missing file that got as far as reading it
C3_Witness ==
  /\ Ran("push") /\ Did("ReadFile")
  /\ pre[FileName(cmd.args[1])].kind = "absent"
  /\ err = Err("reading file: open " \o FileName(cmd.args[1])
                \o ": no such file or directory")

----------------------------------------------------------------------------
(* C4 *)

\* C4: whenever push read <id>.md with content C, it called UpdateDocument
\* exactly once, with the argument as document id and the whole of C as content,
\* and it returned nil if that call returned nil.
C4_PushSendsWholeFile ==
  (Ran("push") /\ Did("ReadFile") /\ pre[FileName(cmd.args[1])].kind = "file")
    => /\ Cardinality(Steps("UpdateDocument")) = 1
       /\ TheCall("UpdateDocument").params
            = <<cmd.args[1], pre[FileName(cmd.args[1])].content>>
       /\ (TheCall("UpdateDocument").err = Nil => err = Nil)

\* a successful push of a file that has content
C4_Witness ==
  /\ Ran("push") /\ Did("UpdateDocument") /\ err = Nil
  /\ pre[FileName(cmd.args[1])].kind = "file"
  /\ pre[FileName(cmd.args[1])].content # <<>>
  /\ TheCall("UpdateDocument").params[2] = pre[FileName(cmd.args[1])].content

----------------------------------------------------------------------------
(* C5 *)

ConfigCommands == {"pull", "push", "list", "create", "debug", "test", "update"}
ConfigFailed == Did("LoadConfig") /\ trace[1].arg.err # Nil

\* C5: in each of pull, push, list, create, debug, test and update, whenever the
\* Config Provider failed with cause E the command returned "loading config: E"
\* and did nothing else: no factory call, no client operation, no request, no
\* file read or written, nothing printed.
C5_ConfigFailureAborts ==
  /\ cmd.name \in ConfigCommands => Did("LoadConfig") /\ trace[1].ev = "LoadConfig"
  /\ (cmd.name \in ConfigCommands /\ ConfigFailed)
       => /\ err = Err("loading config: " \o Msg(trace[1].arg.err))
          /\ Len(trace) = 1
          /\ fs = pre
          /\ out = <<>>

\* the update command, which sends its request itself, stopped by a config failure
C5_Witness ==
  /\ Ran("update") /\ ConfigFailed
  /\ err = Err("loading config: open " \o ConfigPath \o ": no such file or directory")

----------------------------------------------------------------------------
(* C6 *)

PipelineCommands == {"pull", "push", "list", "create"}
Stages ==
  {"LoadConfig", "ReadFile", "WriteFile",
   "GetDocument", "UpdateDocument", "ListDocuments", "CreateDocument"}
StageLabel(ev) ==
  CASE ev = "LoadConfig" -> "loading config"
    [] ev = "GetDocument" -> "fetching document"
    [] ev = "ReadFile" -> "reading file"
    [] ev = "UpdateDocument" -> "updating document"
    [] ev = "WriteFile" -> "writing file"
    [] ev = "ListDocuments" -> "listing documents"
    [] ev = "CreateDocument" -> "creating document"
StageSteps == {i \in 1..Len(trace) : trace[i].ev \in Stages}

\* C6: in pull, push, list and create, the first stage that fails is the last
\* thing the command does, the error returned is that stage's label followed by
\* its cause, a command that fails has a failed stage, and no stage runs twice
\* (nor is a second request sent).
C6_TerminalOnFirstFailure ==
  cmd.name \in PipelineCommands
    => /\ \A i \in StageSteps :
            trace[i].arg.err # Nil
              => /\ i = Len(trace)
                 /\ err = Err(StageLabel(trace[i].ev) \o ": " \o Msg(trace[i].arg.err))
       /\ Failed => \E i \in StageSteps : trace[i].arg.err # Nil
       /\ \A name \in Stages \cup {"Do", "clientFactory"} : Cardinality(Steps(name)) <= 1

\* a pull stopped at its last stage, the file write, after a successful fetch
C6_Witness ==
  /\ Ran("pull") /\ Returned("GetDocument")
  /\ Did("WriteFile") /\ trace[Len(trace)].ev = "WriteFile"
  /\ HasPrefix(err, "writing file: ", WriteCauses(FileName(cmd.args[1])))

----------------------------------------------------------------------------
(* C7 *)

\* C7: whenever push(id) directly follows a successful pull(id) that fetched
\* Text T and push gets to read <id>.md, push calls UpdateDocument with id and
\* a content equal to T.
C7_RoundTrip ==
  (Ran("push") /\ pulled # Nil /\ Did("ReadFile"))
    => /\ Did("UpdateDocument")
       /\ TheCall("UpdateDocument").params = <<cmd.args[1], pulled[1]>>

\* a push that sent back the non-empty text the pull before it had fetched
C7_Witness ==
  /\ Ran("push") /\ pulled # Nil /\ pulled[1] # <<>>
  /\ Did("UpdateDocument")
  /\ TheCall("UpdateDocument").params[2] = pulled[1]

----------------------------------------------------------------------------
(* C8 *)

\* the operations of the transport client of src/api/client.go
TransportOps == {"GetDocument", "UpdateDocument", "ListDocuments"}

\* a result the caller can use: a Document that is not the zero Document, a
\* slice that is not nil
Populated(op, doc) ==
  CASE op = "GetDocument" -> doc # Nil /\ doc[1] # ZeroDocument
    [] op = "ListDocuments" -> doc # Nil
    [] OTHER -> FALSE

\* C8, as stated: every call of GetDocument, UpdateDocument or ListDocuments
\* ends either with an error and no result, or with a nil error and a populated
\* result (reads) or nothing (writes).
C8_AsStated ==
  cmd.name \in TransportOps
    => LET r == TheCall(cmd.name)
       IN \/ r.err # Nil /\ r.doc = Nil
          \/ /\ r.err = Nil
             /\ IF cmd.name = "UpdateDocument" THEN r.doc = Nil
                ELSE Populated(cmd.name, r.doc)

----------------------------------------------------------------------------
(* C9 *)

AllTransportOps == TransportOps \cup {"GetDocument_v1", "UpdateDocument_v1"}

\* the operation op applied to the input i
Apply(op, i) ==
  CASE op = "GetDocument" -> GetDocument(i.cfg, i.docID, i.verbose, i.rt)
    [] op = "UpdateDocument" -> UpdateDocument(i.cfg, i.docID, i.content, i.verbose, i.rt)
    [] op = "ListDocuments" -> ListDocuments(i.cfg, i.verbose, i.rt)
    [] op = "GetDocument_v1" -> GetDocument_v1(i.cfg, i.docID, i.rt)
    [] op = "UpdateDocument_v1" -> UpdateDocument_v1(i.cfg, i.docID, i.content, i.rt)

\* the URLs of the requests sent, in order
RECURSIVE Targets(_)
Targets(steps) ==
  IF steps = <<>> THEN <<>>
  ELSE (IF Head(steps).ev = "Do" THEN <<Head(steps).arg.url>> ELSE <<>>)
         \o Targets(Tail(steps))

EndsInSlash(u) == u # <<>> /\ u[Len(u)] = "/"
WithSlash(i) == [i EXCEPT !.cfg.OutlineURL = @ \o <<"/">>]

\* C9, as stated: for every operation of a transport client and every base URL U
\* that does not end in a slash, the requests sent under OutlineURL = U go to the
\* same URLs as the requests the operation sends under OutlineURL = U + "/".
C9_AsStated ==
  (cmd.name \in AllTransportOps /\ ~ EndsInSlash(input[1].cfg.OutlineURL))
    => Targets(trace) = Targets(Apply(cmd.name, WithSlash(input[1])).steps)

----------------------------------------------------------------------------
(* C10 *)

\* everything that calls a normalizeURL: the operations of the transport client
\* (package api) and the test and update commands (package cmd)
Normalizing == TransportOps \cup {"test", "update"}

\* the base the request URL was built on: the URL without the endpoint path
SentBase == LET url == Targets(trace)[1] IN SubSeq(url, 1, Len(url) - 1)

StripOne(u) == IF EndsInSlash(u) THEN SubSeq(u, 1, Len(u) - 1) ELSE u

\* C10, as stated: the endpoint path is appended to U with one trailing "/"
\* removed if U ends in "/", and to U unchanged otherwise.
C10_AsStated ==
  (cmd.name \in Normalizing /\ Did("Do"))
    => SentBase = StripOne(input[1].cfg.OutlineURL)

\* C10, amended: the endpoint path is appended to U with every trailing "/"
\* removed: to the longest prefix of U that does not end in "/".
C10_StripsAllTrailingSlashes ==
  (cmd.name \in Normalizing /\ Did("Do"))
    => LET u == input[1].cfg.OutlineURL
       IN /\ Len(SentBase) <= Len(u)
          /\ SentBase = SubSeq(u, 1, Len(SentBase))
          /\ ~ EndsInSlash(SentBase)
          /\ \A k \in (Len(SentBase) + 1)..Len(u) : u[k] = "/"

\* a request sent for a base URL that ends in two slashes
C10_Witness ==
  /\ cmd.name \in Normalizing /\ Did("Do")
  /\ input[1].cfg.OutlineURL = <<"http://h", "/", "/">>
  /\ SentBase = <<"http://h">>

----------------------------------------------------------------------------
(* C11 *)

\* the body is a JSON object that has the fields error and message
HasEnvelope(body) == HasField(body.json, "error") /\ HasField(body.json, "message")

\* C11, as stated: whenever GetDocument got a status other than 200, it returned
\* "API error: <error> - <message>" if the body holds an {error, message}
\* envelope, and "unexpected status code: <code>, body: <body>" for every other
\* body.
C11_AsStated ==
  (cmd.name = "GetDocument" /\ Did("StatusCode") /\ input[1].rt.status # StatusOK)
    => LET r == input[1].rt
       IN IF HasEnvelope(r.body)
          THEN err = Err("API error: " \o r.body.json.v["error"].v \o " - "
                           \o r.body.json.v["message"].v)
          ELSE err = Err("unexpected status code: " \o ToString(r.status)
                           \o ", body: " \o r.body.raw)

----------------------------------------------------------------------------
(* C12 *)

\* C12, as stated: every request sent by GetDocument, UpdateDocument or
\* ListDocuments carries Authorization = "Bearer <APIKey>", a JSON Content-Type
\* and a JSON Accept header.
C12_AsStated ==
  cmd.name \in TransportOps
    => \A i \in Steps("Do") :
         LET h == trace[i].arg.headers
         IN /\ {"Authorization", "Content-Type", "Accept"} \subseteq DOMAIN h
            /\ h["Authorization"] = "Bearer " \o Str(input[1].cfg.APIKey)
            /\ h["Content-Type"] = "application/json"
            /\ h["Accept"] = "application/json"

----------------------------------------------------------------------------
(* C13 *)

\* the same call with the verbose flag the other way round
OtherVerbosity(i) == [i EXCEPT !.verbose = ~ @]

\* C13: for every operation of the transport client, every argument and every
\* answer of the network, the call made and the same call with the other value
\* of verbose take the same steps (the same requests: method, URL, headers and
\* body, in the same number and order) and return the same result and error.
C13_VerboseObservational ==
  cmd.name \in TransportOps
    => LET mine == TheCall(cmd.name)
           other == Apply(cmd.name, OtherVerbosity(input[1]))
       IN /\ SubSeq(trace, 1, Len(trace) - 1) = other.steps
          /\ Targets(trace) = Targets(other.steps)
          /\ mine.doc = other.doc
          /\ mine.err = other.err

\* a verbose GetDocument that sent its request, printed its diagnostics and
\* returned a Document, where the silent call prints nothing
C13_Witness ==
  /\ cmd.name = "GetDocument" /\ input[1].verbose
  /\ Did("Do") /\ err = Nil /\ out # <<>>
  /\ Apply("GetDocument", OtherVerbosity(input[1])).diag = <<>>

----------------------------------------------------------------------------
(* C14 *)

\* C14, as stated: every step that replaces clientFactory either saves the
\* factory it replaces, or puts back the saved one and so ends the substitution.
C14_AsStated ==
  [][clientFactory' # clientFactory
       => \/ savedFactory' = <<clientFactory>>
          \/ /\ savedFactory # Nil
             /\ clientFactory' = savedFactory[1]
             /\ savedFactory' = Nil]_vars

----------------------------------------------------------------------------
(* C15 *)

\* C15, as stated: after every pull, <id>.md either holds the complete fetched
\* Text or is exactly as it was when the command started.
C15_AsStated ==
  Ran("pull")
    => LET name == FileName(cmd.args[1])
       IN \/ fs[name] = pre[name]
          \/ /\ Returned("GetDocument")
             /\ fs[name] = File(TheCall("GetDocument").doc[1].Text)

----------------------------------------------------------------------------
(* C16 *)

ClientCallSteps ==
  Steps("GetDocument") \cup Steps("UpdateDocument") \cup Steps("ListDocuments")
    \cup Steps("CreateDocument")

\* every step named first comes before every step named second
Before(first, second) == \A i \in first, j \in second : i < j

\* C16: in pull, push, list and create the factory is called once when the
\* config has loaded and never twice, at most one client operation is performed
\* and at most one request sent; a request is followed by the reading of the
\* whole body before the status is looked at or anything decoded, and an
\* operation that sent a request returns without error only after that reading;
\* the factory call comes before the operation, push reads the file before the
\* round trip, and pull writes the file after it.
C16_OneRoundTripSequential ==
  cmd.name \in PipelineCommands
    => /\ Cardinality(Steps("clientFactory")) <= 1
       /\ ~ ConfigFailed => Cardinality(Steps("clientFactory")) = 1
       /\ Cardinality(ClientCallSteps) <= 1
       /\ Cardinality(Steps("Do")) <= 1
       /\ Cardinality(Steps("ReadAll")) <= 1
       /\ Cardinality(Steps("ReadFile")) <= 1
       /\ Cardinality(Steps("WriteFile")) <= 1
       /\ Before(Steps("Do"), Steps("ReadAll"))
       /\ Before(Steps("ReadAll"), Steps("StatusCode") \cup Steps("Unmarshal"))
       /\ (Steps("StatusCode") \cup Steps("Unmarshal") # {}) => Did("ReadAll")
       /\ \A i \in ClientCallSteps :
            (trace[i].arg.err = Nil /\ Did("Do")) => Did("ReadAll")
       /\ Before(Steps("Do") \cup Steps("ReadAll"), ClientCallSteps)
       /\ Before(Steps("clientFactory"), Steps("Do") \cup ClientCallSteps)
       /\ Before(Steps("ReadFile"), Steps("Do") \cup Steps("UpdateDocument"))
       /\ Before(Steps("Do") \cup Steps("GetDocument"), Steps("WriteFile"))
       /\ Ran("push") /\ Did("UpdateDocument") => Did("ReadFile")
       /\ Ran("pull") /\ Returned("GetDocument") => Did("WriteFile")

\* a successful push through the real client: file read, then one request, then
\* the body read, then the status
C16_Witness ==
  /\ Ran("push") /\ err = Nil
  /\ Cardinality(Steps("ReadFile")) = 1 /\ Cardinality(Steps("Do")) = 1
  /\ Cardinality(Steps("ReadAll")) = 1 /\ Did("StatusCode")
  /\ Before(Steps("ReadFile"), Steps("Do"))
  /\ Before(Steps("Do"), Steps("ReadAll"))

----------------------------------------------------------------------------
(* C17 *)

\* the method set of the interface api.Client
ClientInterface == {"GetDocument", "UpdateDocument", "ListDocuments"}

\* C17, as stated: whenever create got past the config, it called CreateDocument
\* exactly once with the title, a text and a collection id; it returned nil and
\* reported the returned Document's ID when the call returned a Document, and
\* returned "creating document: E" when the call returned the error E; and the
\* client built by the default factory has the operation CreateDocument.
C17_AsStated ==
  (Ran("create") /\ ~ ConfigFailed)
    => /\ Cardinality(Steps("CreateDocument")) = 1
       /\ LET call == TheCall("CreateDocument")
          IN /\ Len(call.params) = 3
             /\ call.params[1] = cmd.args[1]
             /\ call.err = Nil
                  => /\ err = Nil
                     /\ out # <<>>
                     /\ out[Len(out)]
                          = <<"Successfully created document with ID: ", call.doc[1].ID>>
             /\ call.err # Nil => err = Err("creating document: " \o Msg(call.err))
       /\ \A i \in Steps("clientFactory") :
            trace[i].arg = "default" => "CreateDocument" \in ClientInterface

----------------------------------------------------------------------------
(* C18 *)

\* C18, as stated: no invocation made while the stub factory is installed sends
\* an HTTP request.
C18_AsStated ==
  [][(clientFactory = "stub" /\ <<cmd, trace>>' # <<cmd, trace>>)
       => \A i \in 1..Len(trace') : trace'[i].ev # "Do"]_vars

====
